---- MODULE Spec2Model ----
(***************************************************************************)
(* ipcalc.py: an IPv4/IPv6 subnet calculator.  The driver (main) parses    *)
(* the command line, calls one of the two calculators, and prints either   *)
(* the error string or the aligned field list.                              *)
(*                                                                         *)
(* Representation.  A Python str is a sequence of one-character strings.   *)
(* A Python int (unbounded, non-negative here) is a big-endian sequence of *)
(* bits without leading zeros; 0 is the empty sequence.  This keeps the    *)
(* 32-bit and 128-bit address arithmetic and the 2^128 address count       *)
(* exact.                                                                   *)
(***************************************************************************)
EXTENDS Integers, Sequences, FiniteSets, TLC

\* ------------------------------------------------------------------ text

Digits == <<"0", "1", "2", "3", "4", "5", "6", "7", "8", "9">>

LowerHex == <<"0", "1", "2", "3", "4", "5", "6", "7", "8", "9",
              "a", "b", "c", "d", "e", "f">>

UpperHex == <<"0", "1", "2", "3", "4", "5", "6", "7", "8", "9",
              "A", "B", "C", "D", "E", "F">>

IsDigit(c) == \E i \in 1..10 : Digits[i] = c

DigitVal(c) == (CHOOSE i \in 1..10 : Digits[i] = c) - 1

IsHexDigit(c) == \E i \in 1..16 : LowerHex[i] = c \/ UpperHex[i] = c

HexVal(c) == (CHOOSE i \in 1..16 : LowerHex[i] = c \/ UpperHex[i] = c) - 1

\* str.isascii() and str.isdigit(): non-empty, decimal digits only
IsAsciiDigits(s) == Len(s) > 0 /\ \A i \in 1..Len(s) : IsDigit(s[i])

\* c in s
Contains(s, c) == \E i \in 1..Len(s) : s[i] = c

\* s.split(sep) for a one-character separator
RECURSIVE Split(_, _)
Split(s, sep) ==
    IF ~Contains(s, sep) THEN <<s>>
    ELSE LET i == CHOOSE k \in 1..Len(s) :
                      s[k] = sep /\ \A j \in 1..(k - 1) : s[j] # sep
         IN  <<SubSeq(s, 1, i - 1)>> \o Split(SubSeq(s, i + 1, Len(s)), sep)

\* sep.join(parts)
RECURSIVE Join(_, _)
Join(parts, sep) ==
    IF parts = <<>> THEN <<>>
    ELSE IF Len(parts) = 1 THEN parts[1]
    ELSE parts[1] \o <<sep>> \o Join(Tail(parts), sep)

\* int(s, 10) and int(s, 16) for a string of digits (small values only)
RECURSIVE ParseDec(_)
ParseDec(s) ==
    IF s = <<>> THEN 0
    ELSE 10 * ParseDec(SubSeq(s, 1, Len(s) - 1)) + DigitVal(s[Len(s)])

RECURSIVE ParseHex(_)
ParseHex(s) ==
    IF s = <<>> THEN 0
    ELSE 16 * ParseHex(SubSeq(s, 1, Len(s) - 1)) + HexVal(s[Len(s)])

\* str(n) and '%x' % n for a small non-negative n
RECURSIVE DecStr(_)
DecStr(n) ==
    IF n < 10 THEN <<Digits[n + 1]>>
    ELSE DecStr(n \div 10) \o <<Digits[(n % 10) + 1]>>

RECURSIVE HexStr(_)
HexStr(n) ==
    IF n < 16 THEN <<LowerHex[n + 1]>>
    ELSE HexStr(n \div 16) \o <<LowerHex[(n % 16) + 1]>>

\* ------------------------------------------------- unbounded integers

Max(a, b) == IF a >= b THEN a ELSE b

Zeros(n) == [i \in 1..n |-> 0]

Ones(n) == [i \in 1..n |-> 1]

Pad(b, n) == IF Len(b) >= n THEN b ELSE Zeros(n - Len(b)) \o b

Norm(b) ==
    IF \A i \in 1..Len(b) : b[i] = 0 THEN <<>>
    ELSE LET f == CHOOSE k \in 1..Len(b) :
                      b[k] = 1 /\ \A j \in 1..(k - 1) : b[j] = 0
         IN  SubSeq(b, f, Len(b))

\* a small natural as an unbounded integer, and back
RECURSIVE FromNat(_)
FromNat(n) == IF n = 0 THEN <<>> ELSE FromNat(n \div 2) \o <<n % 2>>

RECURSIVE ToNat(_)
ToNat(b) ==
    IF b = <<>> THEN 0 ELSE 2 * ToNat(SubSeq(b, 1, Len(b) - 1)) + b[Len(b)]

\* a & b, a | b, a ^ b
BitAnd(a, b) ==
    LET n == Max(Len(a), Len(b))
        x == Pad(a, n)
        y == Pad(b, n)
    IN  Norm([i \in 1..n |-> x[i] * y[i]])

BitOr(a, b) ==
    LET n == Max(Len(a), Len(b))
        x == Pad(a, n)
        y == Pad(b, n)
    IN  Norm([i \in 1..n |-> IF x[i] + y[i] > 0 THEN 1 ELSE 0])

BitXor(a, b) ==
    LET n == Max(Len(a), Len(b))
        x == Pad(a, n)
        y == Pad(b, n)
    IN  Norm([i \in 1..n |-> (x[i] + y[i]) % 2])

\* a >> k, a << k
ShiftRight(a, k) == IF k >= Len(a) THEN <<>> ELSE SubSeq(a, 1, Len(a) - k)

ShiftLeft(a, k) == IF a = <<>> THEN <<>> ELSE a \o Zeros(k)

\* the fixed-width fields of an integer, most significant first, and back
\* (to_bytes / from_bytes; also the hextets, and the limbs of the sums below)
Fields(ip_int, count, bits) ==
    [i \in 1..count |->
        ToNat(SubSeq(Pad(ip_int, count * bits), (i - 1) * bits + 1, i * bits))]

RECURSIVE Concat(_, _)
Concat(fields, bits) ==
    IF fields = <<>> THEN <<>>
    ELSE Pad(FromNat(fields[1]), bits) \o Concat(Tail(fields), bits)

\* the number of 16-bit limbs that hold a and b
Limbs(a, b) == (Max(Len(a), Len(b)) + 15) \div 16

\* x + y + carry on 16-bit limbs, most significant first
RECURSIVE AddLimbs(_, _, _)
AddLimbs(x, y, carry) ==
    IF x = <<>> THEN <<carry>>
    ELSE AddLimbs(SubSeq(x, 1, Len(x) - 1), SubSeq(y, 1, Len(y) - 1),
                  (x[Len(x)] + y[Len(y)] + carry) \div 65536)
         \o <<(x[Len(x)] + y[Len(y)] + carry) % 65536>>

\* a + b
Add(a, b) ==
    Norm(Concat(AddLimbs(Fields(a, Limbs(a, b), 16),
                         Fields(b, Limbs(a, b), 16), 0), 16))

\* x - y - borrow on 16-bit limbs, most significant first, for x >= y
RECURSIVE SubLimbs(_, _, _)
SubLimbs(x, y, borrow) ==
    IF x = <<>> THEN <<>>
    ELSE SubLimbs(SubSeq(x, 1, Len(x) - 1), SubSeq(y, 1, Len(y) - 1),
                  IF x[Len(x)] - y[Len(y)] - borrow < 0 THEN 1 ELSE 0)
         \o <<(x[Len(x)] - y[Len(y)] - borrow + 65536) % 65536>>

\* a - b, for a >= b
Sub(a, b) ==
    Norm(Concat(SubLimbs(Fields(a, Limbs(a, b), 16),
                         Fields(b, Limbs(a, b), 16), 0), 16))

\* x < y for limb lists of one length
LessLimbs(x, y) ==
    \E k \in 1..Len(x) : x[k] < y[k] /\ \A j \in 1..(k - 1) : x[j] = y[j]

\* a < b, a <= b
Less(a, b) ==
    LessLimbs(Fields(a, Limbs(a, b), 16), Fields(b, Limbs(a, b), 16))

LessEq(a, b) == a = b \/ Less(a, b)

One == <<1>>

\* ------------------------------------------- ipaddress: shared pieces
\* The calculators call the standard ipaddress module; what follows is the
\* behaviour of the calls they make.  A call either returns a value or
\* raises: Ok(v) or Raise(exception class, message).  The message of a
\* library exception is kept as one opaque element of the text.

Ok(v) == [ok |-> TRUE, val |-> v]

Raise(cls, m) == [ok |-> FALSE, exc |-> cls, msg |-> m]

\* IsValueError as it would be had the first except clause named
\* ipaddress.AddressValueError instead of ValueError
IsValueError_AddressOnly(cls) == cls = "AddressValueError"

\* AddressValueError and NetmaskValueError are subclasses of ValueError
IsValueError(cls) ==
    cls \in {"ValueError", "AddressValueError", "NetmaskValueError"}

IPV4LENGTH == 32

IPV6LENGTH == 128

HEXTET_COUNT == 8

\* cls._ALL_ONES
AllOnes(width) == Ones(width)

\* _split_optional_netmask
split_optional_netmask(address) ==
    LET addr == Split(address, "/")
    IN  IF Len(addr) > 2
        THEN Raise("AddressValueError", "Only one '/' permitted")
        ELSE Ok(addr)

\* _ip_int_from_prefix: ALL_ONES ^ (ALL_ONES >> prefixlen)
ip_int_from_prefix(width, prefixlen) ==
    BitXor(AllOnes(width), ShiftRight(AllOnes(width), prefixlen))

\* _prefix_from_prefix_string
prefix_from_prefix_string(width, prefixlen_str) ==
    IF ~IsAsciiDigits(prefixlen_str)
    THEN Raise("NetmaskValueError", "is not a valid netmask")
    ELSE IF ~(0 <= ParseDec(prefixlen_str) /\ ParseDec(prefixlen_str) <= width)
    THEN Raise("NetmaskValueError", "is not a valid netmask")
    ELSE Ok(ParseDec(prefixlen_str))

\* _count_righthand_zero_bits(number, bits)
count_righthand_zero_bits(number, bits) ==
    IF number = <<>> THEN bits
    ELSE LET last == CHOOSE k \in 1..Len(number) :
                         number[k] = 1 /\ \A j \in (k + 1)..Len(number) : number[j] = 0
         IN  IF Len(number) - last < bits THEN Len(number) - last ELSE bits

\* _prefix_from_ip_int: the netmask must be ones followed by zeroes
prefix_from_ip_int(width, ip_int) ==
    LET trailing_zeroes == count_righthand_zero_bits(ip_int, width)
        prefixlen == width - trailing_zeroes
        leading_ones == ShiftRight(ip_int, trailing_zeroes)
        all_ones == Sub(ShiftLeft(One, prefixlen), One)
    IN  IF leading_ones # all_ones
        THEN Raise("ValueError", "Netmask pattern mixes zeroes & ones")
        ELSE Ok(prefixlen)

\* the first element of a list of results that raised, 0 if none did
FirstRaise(rs) ==
    IF \A i \in 1..Len(rs) : rs[i].ok THEN 0
    ELSE CHOOSE k \in 1..Len(rs) : ~rs[k].ok /\ \A j \in 1..(k - 1) : rs[j].ok

\* --------------------------------------------------- ipaddress: IPv4

\* _BaseV4._parse_octet
parse_octet(octet_str) ==
    IF octet_str = <<>>
    THEN Raise("ValueError", "Empty octet not permitted")
    ELSE IF ~IsAsciiDigits(octet_str)
    THEN Raise("ValueError", "Only decimal digits permitted")
    ELSE IF Len(octet_str) > 3
    THEN Raise("ValueError", "At most 3 characters permitted")
    ELSE IF octet_str # <<"0">> /\ octet_str[1] = "0"
    THEN Raise("ValueError", "Leading zeros are not permitted")
    ELSE IF ParseDec(octet_str) > 255
    THEN Raise("ValueError", "Octet (> 255) not permitted")
    ELSE Ok(ParseDec(octet_str))

\* _BaseV4._ip_int_from_string, from the parsed octets on:
\* int.from_bytes(map(cls._parse_octet, octets), 'big'), the first failure
\* re-raised as AddressValueError
v4_from_parsed_octets(parsed) ==
    IF FirstRaise(parsed) # 0
    THEN Raise("AddressValueError", parsed[FirstRaise(parsed)].msg)
    ELSE Ok(Norm(Concat([i \in 1..Len(parsed) |-> parsed[i].val], 8)))

\* _BaseV4._ip_int_from_string, from octets = ip_str.split('.') on
v4_from_octets(octets) ==
    IF Len(octets) # 4
    THEN Raise("AddressValueError", "Expected 4 octets")
    ELSE v4_from_parsed_octets([i \in 1..4 |-> parse_octet(octets[i])])

\* _BaseV4._ip_int_from_string
v4_ip_int_from_string(ip_str) ==
    IF ip_str = <<>>
    THEN Raise("AddressValueError", "Address cannot be empty")
    ELSE v4_from_octets(Split(ip_str, "."))

\* _BaseV4._string_from_ip_int: '.'.join(map(str, ip_int.to_bytes(4, 'big')))
v4_string_from_ip_int(ip_int) ==
    LET octets == Fields(ip_int, 4, 8)
    IN  Join([i \in 1..4 |-> DecStr(octets[i])], ".")

\* _prefix_from_ip_string, the two attempts: a netmask, else a hostmask
netmask_or_hostmask(asNetmask, asHostmask) ==
    IF asNetmask.ok THEN asNetmask
    ELSE IF asHostmask.ok THEN asHostmask
    ELSE Raise("NetmaskValueError", "is not a valid netmask")

\* _prefix_from_ip_string, from the parsed mask on
prefix_from_parsed_mask(ip) ==
    IF ~ip.ok
    THEN Raise("NetmaskValueError", "is not a valid netmask")
    ELSE netmask_or_hostmask(
             prefix_from_ip_int(IPV4LENGTH, ip.val),
             prefix_from_ip_int(IPV4LENGTH, BitXor(ip.val, AllOnes(IPV4LENGTH))))

\* _BaseV4._prefix_from_ip_string: a dotted netmask or hostmask
v4_prefix_from_ip_string(ip_str) ==
    prefix_from_parsed_mask(v4_ip_int_from_string(ip_str))

\* IPv4Network._make_netmask, the except clause: a prefix length that does
\* not parse is tried as a dotted netmask
prefix_or_dotted(asPrefix, arg) ==
    IF asPrefix.ok THEN asPrefix ELSE v4_prefix_from_ip_string(arg)

\* IPv4Network._make_netmask for the string after the '/'
v4_make_netmask(arg) ==
    prefix_or_dotted(prefix_from_prefix_string(IPV4LENGTH, arg), arg)

\* --------------------------------------------------- ipaddress: IPv6
\* Scope ids ('%') are left out: no input of the model carries one.

\* _BaseV6._parse_hextet
parse_hextet(hextet_str) ==
    IF ~(\A i \in 1..Len(hextet_str) : IsHexDigit(hextet_str[i]))
    THEN Raise("ValueError", "Only hex digits permitted")
    ELSE IF Len(hextet_str) > 4
    THEN Raise("ValueError", "At most 4 characters permitted")
    ELSE IF hextet_str = <<>>
    THEN Raise("ValueError", "invalid literal for int() with base 16")
    ELSE Ok(ParseHex(hextet_str))

\* the try block of _BaseV6._ip_int_from_string, from the parsed hextets
\* on: parts_hi of them, the skipped zeroes, then parts_lo of them
v6_from_parsed_hextets(parsed, parts_hi, parts_skipped) ==
    IF FirstRaise(parsed) # 0
    THEN Raise("AddressValueError", parsed[FirstRaise(parsed)].msg)
    ELSE Ok(Norm(Concat([i \in 1..parts_hi |-> parsed[i].val], 16)
                 \o Zeros(16 * parts_skipped)
                 \o Concat([i \in 1..(Len(parsed) - parts_hi) |->
                               parsed[parts_hi + i].val], 16)))

\* the two loops at the end of _BaseV6._ip_int_from_string
v6_assemble(parts, parts_hi, parts_lo, parts_skipped) ==
    v6_from_parsed_hextets(
        [i \in 1..(parts_hi + parts_lo) |->
            IF i <= parts_hi THEN parse_hextet(parts[i])
            ELSE parse_hextet(parts[Len(parts) - parts_lo + (i - parts_hi)])],
        parts_hi, parts_skipped)

\* _BaseV6._ip_int_from_string, after the IPv4-style suffix is converted
v6_ip_int_from_parts(parts) ==
    LET n == Len(parts)
        \* range(1, len(parts) - 1), as one-based positions
        skips == {i \in 2..(n - 1) : parts[i] = <<>>}
        skip_index == (CHOOSE i \in skips : TRUE) - 1
        hi == IF parts[1] = <<>> THEN skip_index - 1 ELSE skip_index
        lo == IF parts[n] = <<>> THEN n - skip_index - 2 ELSE n - skip_index - 1
    IN  IF n > HEXTET_COUNT + 1
        THEN Raise("AddressValueError", "At most 8 colons permitted")
        ELSE IF Cardinality(skips) > 1
        THEN Raise("AddressValueError", "At most one '::' permitted")
        ELSE IF skips # {}
        THEN IF parts[1] = <<>> /\ hi # 0
             THEN Raise("AddressValueError",
                        "Leading ':' only permitted as part of '::'")
             ELSE IF parts[n] = <<>> /\ lo # 0
             THEN Raise("AddressValueError",
                        "Trailing ':' only permitted as part of '::'")
             ELSE IF HEXTET_COUNT - (hi + lo) < 1
             THEN Raise("AddressValueError",
                        "Expected at most 7 other parts with '::'")
             ELSE v6_assemble(parts, hi, lo, HEXTET_COUNT - (hi + lo))
        ELSE IF n # HEXTET_COUNT
             THEN Raise("AddressValueError",
                        "Exactly 8 parts expected without '::'")
             ELSE IF parts[1] = <<>>
             THEN Raise("AddressValueError",
                        "Leading ':' only permitted as part of '::'")
             ELSE IF parts[n] = <<>>
             THEN Raise("AddressValueError",
                        "Trailing ':' only permitted as part of '::'")
             ELSE v6_assemble(parts, n, 0, 0)

\* _BaseV6._ip_int_from_string: an IPv4-style suffix becomes two hextets
v6_with_ipv4_suffix(parts, ipv4) ==
    IF ~ipv4.ok
    THEN Raise("AddressValueError", ipv4.msg)
    ELSE v6_ip_int_from_parts(
             SubSeq(parts, 1, Len(parts) - 1)
             \o <<HexStr(ToNat(BitAnd(ShiftRight(ipv4.val, 16), FromNat(65535)))),
                  HexStr(ToNat(BitAnd(ipv4.val, FromNat(65535))))>>)

\* _BaseV6._ip_int_from_string, from parts = ip_str.split(':') on
v6_from_split(parts) ==
    IF Len(parts) < 3
    THEN Raise("AddressValueError", "At least 3 parts expected")
    ELSE IF ~Contains(parts[Len(parts)], ".")
    THEN v6_ip_int_from_parts(parts)
    ELSE v6_with_ipv4_suffix(parts, v4_ip_int_from_string(parts[Len(parts)]))

\* _BaseV6._ip_int_from_string
v6_ip_int_from_string(ip_str) ==
    IF ip_str = <<>>
    THEN Raise("AddressValueError", "Address cannot be empty")
    ELSE v6_from_split(Split(ip_str, ":"))

\* the loop of _BaseV6._compress_hextets: the longest run of "0" hextets,
\* the first one among equals; st is the loop's four variables
RECURSIVE compress_scan(_, _, _)
compress_scan(hextets, index, st) ==
    IF index > Len(hextets) THEN st
    ELSE IF hextets[index] = <<"0">>
    THEN LET len == st.doublecolon_len + 1
             start == IF st.doublecolon_start = -1
                      THEN index - 1 ELSE st.doublecolon_start
         IN  compress_scan(hextets, index + 1,
                 [doublecolon_len |-> len,
                  doublecolon_start |-> start,
                  best_doublecolon_len |->
                      IF len > st.best_doublecolon_len
                      THEN len ELSE st.best_doublecolon_len,
                  best_doublecolon_start |->
                      IF len > st.best_doublecolon_len
                      THEN start ELSE st.best_doublecolon_start])
    ELSE compress_scan(hextets, index + 1,
             [st EXCEPT !.doublecolon_len = 0, !.doublecolon_start = -1])

\* _BaseV6._compress_hextets after the loop (positions are zero-based as in
\* the source): the best run becomes one empty string, with one more at
\* either end of the list when the run touches it
compress_replace(hextets, start, len) ==
    IF len <= 1 THEN hextets
    ELSE (IF start = 0 THEN << <<>> >> ELSE <<>>)
         \o SubSeq(hextets, 1, start)
         \o << <<>> >>
         \o SubSeq(hextets, start + len + 1, Len(hextets))
         \o (IF start + len = Len(hextets) THEN << <<>> >> ELSE <<>>)

compress_best(hextets, st) ==
    compress_replace(hextets, st.best_doublecolon_start, st.best_doublecolon_len)

\* _BaseV6._compress_hextets
compress_hextets(hextets) ==
    compress_best(hextets,
        compress_scan(hextets, 1,
            [doublecolon_len |-> 0, doublecolon_start |-> -1,
             best_doublecolon_len |-> 0, best_doublecolon_start |-> -1]))

\* _BaseV6._string_from_ip_int
v6_string_from_ip_int(ip_int) ==
    Join(compress_hextets([i \in 1..HEXTET_COUNT |->
                              HexStr(Fields(ip_int, HEXTET_COUNT, 16)[i])]), ":")

\* IPv6Network._make_netmask for the string after the '/'
v6_make_netmask(arg) == prefix_from_prefix_string(IPV6LENGTH, arg)

\* ------------------------------------------------ ipaddress: networks

\* cls._max_prefixlen
max_prefixlen(version) == IF version = 4 THEN IPV4LENGTH ELSE IPV6LENGTH

\* masked_network as it would be if the host bits were kept
masked_network_KeepHostBits(version, addr, prefixlen, netmask) ==
    Ok([version |-> version,
        width |-> max_prefixlen(version),
        network_address |-> addr,
        netmask |-> netmask,
        prefixlen |-> prefixlen])

\* the end of the network constructors with strict=False: host bits set in
\* the address are masked off
masked_network(version, addr, prefixlen, netmask) ==
    Ok([version |-> version,
        width |-> max_prefixlen(version),
        network_address |-> BitAnd(addr, netmask),
        netmask |-> netmask,
        prefixlen |-> prefixlen])

\* the network constructors once the address and the netmask are parsed
\* (the address first): either failure propagates
network_from_parsed(version, addr, mask) ==
    IF ~addr.ok THEN addr
    ELSE IF ~mask.ok THEN mask
    ELSE masked_network(version, addr.val, mask.val,
                        ip_int_from_prefix(max_prefixlen(version), mask.val))

\* _split_addr_prefix and the two parses; without a '/' the prefix length
\* is the whole width
network_from_split(version, parts) ==
    network_from_parsed(version,
        IF version = 4 THEN v4_ip_int_from_string(parts[1])
        ELSE v6_ip_int_from_string(parts[1]),
        IF Len(parts) = 1 THEN Ok(max_prefixlen(version))
        ELSE IF version = 4 THEN v4_make_netmask(parts[2])
        ELSE v6_make_netmask(parts[2]))

network_or_raise(version, split) ==
    IF ~split.ok THEN split ELSE network_from_split(version, split.val)

\* IPv4Network(address, strict=False) / IPv6Network(address, strict=False)
IPNetwork(version, address) ==
    network_or_raise(version, split_optional_netmask(address))

IPv4Network(address) == IPNetwork(4, address)

IPv6Network(address) == IPNetwork(6, address)

\* network.hostmask, network.broadcast_address, network.num_addresses
hostmask(network) == BitXor(network.netmask, AllOnes(network.width))

broadcast_address(network) == BitOr(network.network_address, hostmask(network))

num_addresses(network) ==
    Add(Sub(broadcast_address(network), network.network_address), One)

\* item_between as it would be without the range checks
item_between_Unchecked(network, broadcast, n) ==
    IF n >= 0 THEN Ok(Add(network, FromNat(n)))
    ELSE Ok(Sub(broadcast, FromNat(-(n + 1))))

\* _BaseNetwork.__getitem__ on the two ends of the range.  For n < 0 the
\* source tests broadcast + (n + 1) < network; with m = -(n + 1) >= 0 that
\* is broadcast < network + m.
item_between(network, broadcast, n) ==
    IF n >= 0
    THEN IF Less(broadcast, Add(network, FromNat(n)))
         THEN Raise("IndexError", "address out of range")
         ELSE Ok(Add(network, FromNat(n)))
    ELSE IF Less(broadcast, Add(network, FromNat(-(n + 1))))
         THEN Raise("IndexError", "address out of range")
         ELSE Ok(Sub(broadcast, FromNat(-(n + 1))))

\* network[n]
getitem(network, n) ==
    item_between(network.network_address, broadcast_address(network), n)

\* str(address)
AddressStr(version, ip_int) ==
    IF version = 4 THEN v4_string_from_ip_int(ip_int)
    ELSE v6_string_from_ip_int(ip_int)

\* network.with_prefixlen: '%s/%d' % (network_address, prefixlen)
with_prefixlen(network) ==
    AddressStr(network.version, network.network_address)
    \o <<"/">> \o DecStr(network.prefixlen)

\* ------------------------------------------------------- calculators

LabelVersion ==
    <<"v", "e", "r", "s", "i", "o", "n">>

LabelInputCIDR ==
    <<"I", "n", "p", "u", "t", " ", "C", "I", "D", "R">>

LabelNetwork ==
    <<"N", "e", "t", "w", "o", "r", "k", " ", "A", "d", "d", "r", "e", "s",
      "s">>

LabelBroadcast ==
    <<"B", "r", "o", "a", "d", "c", "a", "s", "t", " ", "A", "d", "d", "r",
      "e", "s", "s">>

LabelFirst ==
    <<"F", "i", "r", "s", "t", " ", "u", "s", "a", "b", "l", "e", " ", "A",
      "d", "d", "r", "e", "s", "s">>

LabelLast ==
    <<"L", "a", "s", "t", " ", "u", "s", "a", "b", "l", "e", " ", "A", "d",
      "d", "r", "e", "s", "s">>

LabelTotal ==
    <<"T", "o", "t", "a", "l", " ", "A", "d", "d", "r", "e", "s", "s", "e",
      "s">>

ErrorPrefixV4 ==
    <<"E", "r", "r", "o", "r", ":", " ", "I", "n", "v", "a", "l", "i", "d",
      " ", "I", "P", "v", "4", " ", "a", "d", "d", "r", "e", "s", "s", " ",
      "o", "r", " ", "p", "r", "e", "f", "i", "x", ".", " ">>

ErrorPrefixV6 ==
    <<"E", "r", "r", "o", "r", ":", " ", "I", "n", "v", "a", "l", "i", "d",
      " ", "I", "P", "v", "6", " ", "a", "d", "d", "r", "e", "s", "s", " ",
      "o", "r", " ", "p", "r", "e", "f", "i", "x", ".", " ">>

UnexpectedPrefix ==
    <<"A", "n", " ", "u", "n", "e", "x", "p", "e", "c", "t", "e", "d", " ",
      "e", "r", "r", "o", "r", " ", "o", "c", "c", "u", "r", "r", "e", "d",
      ":", " ">>

\* Python values: a str, an int, or a dict kept as its list of items
StrValue(text) == [type |-> "str", text |-> text]

IntValue(n) == [type |-> "int", val |-> n]

DictValue(items) == [type |-> "dict", items |-> items]

Item(label, value) == [label |-> label, value |-> value]

\* the two except clauses shared by both calculators
ExceptClauses(errorPrefix, raised) ==
    IF IsValueError(raised.exc)
    THEN StrValue(errorPrefix \o <<raised.msg>>)
    ELSE StrValue(UnexpectedPrefix \o <<raised.msg>>)

\* the dict literal of calculate_ipv4_subnet_info, once network[1] and
\* network[-2] are evaluated: the first of them that raises ends the try
ipv4_info(network, first, last) ==
    IF ~first.ok THEN ExceptClauses(ErrorPrefixV4, first)
    ELSE IF ~last.ok THEN ExceptClauses(ErrorPrefixV4, last)
    ELSE DictValue(<<
        Item(LabelVersion, IntValue(FromNat(4))),
        Item(LabelInputCIDR, StrValue(with_prefixlen(network))),
        Item(LabelNetwork, StrValue(AddressStr(4, network.network_address))),
        Item(LabelBroadcast, StrValue(AddressStr(4, broadcast_address(network)))),
        Item(LabelFirst, StrValue(AddressStr(4, first.val))),
        Item(LabelLast, StrValue(AddressStr(4, last.val))),
        Item(LabelTotal, IntValue(num_addresses(network))) >>)

\* the try block of calculate_ipv4_subnet_info after the constructor call
ipv4_try(made) ==
    IF ~made.ok THEN ExceptClauses(ErrorPrefixV4, made)
    ELSE ipv4_info(made.val, getitem(made.val, 1), getitem(made.val, -2))

calculate_ipv4_subnet_info(ipv4_address_with_prefix) ==
    ipv4_try(IPv4Network(ipv4_address_with_prefix))

\* the body of calculate_ipv6_subnet_info, once network[1] and network[-1]
\* are evaluated
ipv6_info(network, first, last) ==
    IF ~first.ok THEN ExceptClauses(ErrorPrefixV6, first)
    ELSE IF ~last.ok THEN ExceptClauses(ErrorPrefixV6, last)
    ELSE DictValue(<<
        Item(LabelVersion, IntValue(FromNat(6))),
        Item(LabelInputCIDR, StrValue(with_prefixlen(network))),
        Item(LabelNetwork, StrValue(AddressStr(6, network.network_address))),
        Item(LabelFirst, StrValue(AddressStr(6, first.val))),
        Item(LabelLast, StrValue(AddressStr(6, last.val))),
        Item(LabelTotal, IntValue(num_addresses(network))) >>)

\* the try block of calculate_ipv6_subnet_info after the constructor call
ipv6_try(made) ==
    IF ~made.ok THEN ExceptClauses(ErrorPrefixV6, made)
    ELSE ipv6_info(made.val, getitem(made.val, 1), getitem(made.val, -1))

calculate_ipv6_subnet_info(ipv6_address_with_prefix) ==
    ipv6_try(IPv6Network(ipv6_address_with_prefix))

\* ---------------------------------------------------------- formatter

\* s.ljust(width)
ljust(s, width) ==
    IF Len(s) >= width THEN s ELSE s \o [i \in 1..(width - Len(s)) |-> " "]

\* limbs * factor + carry, on base-1000 limbs, least significant first
RECURSIVE MulAdd(_, _, _)
MulAdd(limbs, factor, carry) ==
    IF limbs = <<>>
    THEN IF carry = 0 THEN <<>>
         ELSE <<carry % 1000>> \o MulAdd(<<>>, factor, carry \div 1000)
    ELSE <<(limbs[1] * factor + carry) % 1000>>
         \o MulAdd(Tail(limbs), factor, (limbs[1] * factor + carry) \div 1000)

\* the groups of three decimal digits of an integer given by its bytes
RECURSIVE Thousands(_)
Thousands(bytes) ==
    IF bytes = <<>> THEN <<>>
    ELSE MulAdd(Thousands(SubSeq(bytes, 1, Len(bytes) - 1)), 256,
                bytes[Len(bytes)])

\* f"{value:,}": decimal digits grouped by three from the right
CommaFormat(value) ==
    LET groups == Thousands(Fields(value, (Len(value) + 7) \div 8, 8))
        n == Len(groups)
        padded(g) == IF g < 10 THEN <<"0", "0">> \o DecStr(g)
                     ELSE IF g < 100 THEN <<"0">> \o DecStr(g)
                     ELSE DecStr(g)
    IN  IF n = 0 THEN <<"0">>
        ELSE Join([i \in 1..n |-> IF i = 1 THEN DecStr(groups[n])
                                  ELSE padded(groups[n + 1 - i])], ",")

\* the first loop of print_subnet_info
max_label_width(items) ==
    IF items = <<>> THEN 0
    ELSE CHOOSE w \in {Len(items[i].label) : i \in 1..Len(items)} :
             \A i \in 1..Len(items) : Len(items[i].label) <= w

\* f"  {label}:".ljust(max_label_width + 4)
formatted_label(label, width) == ljust(<<" ", " ">> \o label \o <<":">>, width + 4)

\* the lines print_subnet_info writes, one per item, in the dict's order
print_subnet_info(subnet_info) ==
    LET items == subnet_info.items
        width == max_label_width(items)
    IN  [i \in 1..Len(items) |->
            formatted_label(items[i].label, width)
            \o (IF items[i].value.type = "int"
                THEN CommaFormat(items[i].value.val)
                ELSE items[i].value.text)]

\* ------------------------------------------------------------- inputs
\* The command lines the model runs: each of -4 and -6 given or not, and no
\* positional argument or one CIDR string.  The strings are every prefix
\* length from 0 to one past the family's width on a sample of addresses,
\* written as the library writes them, and a list of further literals.

NumV4Addresses == 16

NumV6Addresses == 8

SampleOctets == <<0, 85, 255, 170>>

SampleHextets == <<0, 65535, 3512, 1>>

\* the k-th digit from the right of n in base 4, as an index from 1
SampleIndex(n, k) == ((n \div (4 ^ k)) % 4) + 1

\* the k-th sample address: its fields are picked by the base-4 digits of a
\* scrambled k, so that neighbouring samples differ in every field
SampleV4(k) ==
    [i \in 1..4 |-> SampleOctets[SampleIndex((k * 37) % 256, 4 - i)]]

SampleV6(k) ==
    [i \in 1..8 |-> SampleHextets[SampleIndex((k * 9973) % 65536, 8 - i)]]

V4Inputs ==
    {v4_string_from_ip_int(Norm(Concat(SampleV4(k), 8)))
       \o <<"/">> \o DecStr(p) :
       k \in 0..(NumV4Addresses - 1), p \in 0..(IPV4LENGTH + 1)}

V6Inputs ==
    {v6_string_from_ip_int(Norm(Concat(SampleV6(k), 16)))
       \o <<"/">> \o DecStr(p) :
       k \in 0..(NumV6Addresses - 1), p \in 0..(IPV6LENGTH + 1)}

LiteralInputs == {
    <<"1", "9", "2", ".", "1", "6", "8", ".", "1", ".", "5", "/", "2", "4">>,
    <<"1", "9", "2", ".", "1", "6", "8", ".", "1", ".", "0", "/", "2", "4">>,
    <<"1", "0", ".", "0", ".", "0", ".", "1", "/", "3", "2">>,
    <<"1", "0", ".", "0", ".", "0", ".", "1">>,
    <<"1", "0", ".", "0", ".", "0", ".", "1", "/", "2", "5", "5", ".", "0",
      ".", "0", ".", "0">>,
    <<"9", "9", "9", ".", "1", ".", "1", ".", "1", "/", "2", "4">>,
    <<"n", "o", "t", "-", "a", "n", "-", "i", "p", "/", "2", "4">>,
    <<"1", ".", "2", ".", "3", ".", "4", "/", "-", "1">>,
    <<"1", ".", "2", ".", "3", ".", "4", "/", "8", "/", "1">>,
    <<"0", "1", ".", "2", ".", "3", ".", "4", "/", "8">>,
    <<"2", "0", "0", "1", ":", "d", "b", "8", ":", ":", "/", "3", "2">>,
    <<"2", "0", "0", "1", ":", "D", "B", "8", ":", ":", "1", "/", "3", "2">>,
    <<":", ":", "/", "0">>,
    <<":", ":", "1">>,
    <<":", ":", "f", "f", "f", "f", ":", "1", ".", "2", ".", "3", ".", "4",
      "/", "1", "2", "0">>,
    <<"g", "g", ":", ":", "/", "6", "4">>,
    <<"1", ":", ":", "2", ":", ":", "3", "/", "6", "4">>,
    <<"1", ":", "2", "/", "6", "4">>,
    <<"2", "5", "5", ".", "2", "5", "5", ".", "2", "5", "5", ".", "2", "5",
      "5", "/", "3", "2">>,
    <<"f", "f", "f", "f", ":", "f", "f", "f", "f", ":", "f", "f", "f", "f",
      ":", "f", "f", "f", "f", ":", "f", "f", "f", "f", ":", "f", "f", "f",
      "f", ":", "f", "f", "f", "f", ":", "f", "f", "f", "f", "/", "1", "2",
      "8">>,
    <<>> }

Inputs == V4Inputs \cup V6Inputs \cup LiteralInputs

\* ------------------------------------------------------------- driver

NoneValue == [type |-> "None"]

\* bool(value) for the values subnet_info takes
Truthy(value) ==
    IF value.type = "dict" THEN value.items # <<>>
    ELSE IF value.type = "str" THEN value.text # <<>>
    ELSE FALSE

VARIABLES
    argv,          \* the command line: flag4, flag6, positional (0 or 1 strings)
    pc,            \* where main is
    args,          \* the argparse namespace: is_ipv4, is_ipv6, network_address
    subnet_info,   \* main's local
    calls,         \* the calculators called so far, in order
    stdout,        \* the lines printed
    stderr,        \* what argparse wrote on a usage error
    exit_status    \* the process exit status, -1 while running

vars == <<argv, pc, args, subnet_info, calls, stdout, stderr, exit_status>>

Init ==
    /\ argv \in [flag4 : BOOLEAN, flag6 : BOOLEAN,
                 positional : {<<>>} \cup {<<c>> : c \in Inputs}]
    /\ pc = "parse_args"
    /\ args = NoneValue
    /\ subnet_info = NoneValue
    /\ calls = <<>>
    /\ stdout = <<>>
    /\ stderr = <<>>
    /\ exit_status = -1

\* parser.parse_args() fails: -4 and -6 are mutually exclusive and the
\* positional argument is required; argparse prints usage and exits with 2
UsageError ==
    /\ pc = "parse_args"
    /\ (argv.flag4 /\ argv.flag6) \/ argv.positional = <<>>
    /\ stderr' = IF argv.flag4 /\ argv.flag6
                 THEN <<"usage", "error: argument -6: not allowed with argument -4">>
                 ELSE <<"usage", "error: the following arguments are required: network_address">>
    /\ exit_status' = 2
    /\ pc' = "exited"
    /\ UNCHANGED <<argv, args, subnet_info, calls, stdout>>

\* ParseArgs as it would be if -4 and -6 were not in one exclusive group
ParseArgs_NoExclusion ==
    /\ pc = "parse_args"
    /\ argv.positional # <<>>
    /\ args' = [is_ipv4 |-> argv.flag4, is_ipv6 |-> argv.flag6,
                network_address |-> argv.positional[1]]
    /\ pc' = "default_family"
    /\ UNCHANGED <<argv, subnet_info, calls, stdout, stderr, exit_status>>

\* parser.parse_args() succeeds
ParseArgs ==
    /\ pc = "parse_args"
    /\ ~(argv.flag4 /\ argv.flag6)
    /\ argv.positional # <<>>
    /\ args' = [is_ipv4 |-> argv.flag4, is_ipv6 |-> argv.flag6,
                network_address |-> argv.positional[1]]
    /\ pc' = "default_family"
    /\ UNCHANGED <<argv, subnet_info, calls, stdout, stderr, exit_status>>

\* DefaultFamily as it would be without the default to IPv6
DefaultFamily_NoDefault ==
    /\ pc = "default_family"
    /\ subnet_info' = NoneValue
    /\ pc' = "dispatch"
    /\ UNCHANGED <<argv, args, calls, stdout, stderr, exit_status>>

\* if not args.is_ipv4 and not args.is_ipv6: args.is_ipv6 = True
DefaultFamily ==
    /\ pc = "default_family"
    /\ args' = IF ~args.is_ipv4 /\ ~args.is_ipv6
               THEN [args EXCEPT !.is_ipv6 = TRUE] ELSE args
    /\ subnet_info' = NoneValue
    /\ pc' = "dispatch"
    /\ UNCHANGED <<argv, calls, stdout, stderr, exit_status>>

\* if args.is_ipv4: subnet_info = calculate_ipv4_subnet_info(ip_input)
DispatchIPv4 ==
    /\ pc = "dispatch"
    /\ args.is_ipv4
    /\ subnet_info' = calculate_ipv4_subnet_info(args.network_address)
    /\ calls' = Append(calls, "calculate_ipv4_subnet_info")
    /\ pc' = "output"
    /\ UNCHANGED <<argv, args, stdout, stderr, exit_status>>

\* elif args.is_ipv6: subnet_info = calculate_ipv6_subnet_info(ip_input)
DispatchIPv6 ==
    /\ pc = "dispatch"
    /\ ~args.is_ipv4
    /\ subnet_info' = IF args.is_ipv6
                      THEN calculate_ipv6_subnet_info(args.network_address)
                      ELSE subnet_info
    /\ calls' = IF args.is_ipv6
                THEN Append(calls, "calculate_ipv6_subnet_info") ELSE calls
    /\ pc' = "output"
    /\ UNCHANGED <<argv, args, stdout, stderr, exit_status>>

\* if isinstance(subnet_info, str): print(subnet_info)
PrintError ==
    /\ pc = "output"
    /\ subnet_info.type = "str"
    /\ stdout' = Append(stdout, subnet_info.text)
    /\ pc' = "return"
    /\ UNCHANGED <<argv, args, subnet_info, calls, stderr, exit_status>>

\* elif subnet_info: print_subnet_info(subnet_info)
PrintInfo ==
    /\ pc = "output"
    /\ subnet_info.type # "str"
    /\ stdout' = IF Truthy(subnet_info)
                 THEN stdout \o print_subnet_info(subnet_info) ELSE stdout
    /\ pc' = "return"
    /\ UNCHANGED <<argv, args, subnet_info, calls, stderr, exit_status>>

\* main returns and the interpreter exits with status 0
Return ==
    /\ pc = "return"
    /\ exit_status' = 0
    /\ pc' = "exited"
    /\ UNCHANGED <<argv, args, subnet_info, calls, stdout, stderr>>

Next ==
    \/ UsageError
    \/ ParseArgs
    \/ DefaultFamily
    \/ DispatchIPv4
    \/ DispatchIPv6
    \/ PrintError
    \/ PrintInfo
    \/ Return

Spec == Init /\ [][Next]_vars

\* -------------------------------------------------------------- claims
\* What the properties below read off a run.

\* a calculator has returned (a usage error exits before there are args)
Dispatched == pc \in {"output", "return", "exited"} /\ args # NoneValue

\* the family main selected
Selected == IF args.is_ipv4 THEN 4 ELSE 6

\* the library accepts the CIDR string for the selected family
ValidInput == IPNetwork(Selected, args.network_address).ok

\* the network the library builds from the CIDR string
InputNetwork == IPNetwork(Selected, args.network_address).val

IsInfo == subnet_info.type = "dict"

FieldOf(info, label) ==
    info.items[CHOOSE i \in 1..Len(info.items) : info.items[i].label = label].value

\* an address field of subnet_info, read back as a number
FieldInt(label) ==
    IF Selected = 4 THEN v4_ip_int_from_string(FieldOf(subnet_info, label).text).val
    ELSE v6_ip_int_from_string(FieldOf(subnet_info, label).text).val

\* the prefix length written in the Input CIDR field
FieldPrefix == ParseDec(Split(FieldOf(subnet_info, LabelInputCIDR).text, "/")[2])

\* 2^k
PowerOfTwo(k) == <<1>> \o Zeros(k)

\* the label of a printed field line: between the indentation and the
\* first colon
LineLabel(line) ==
    SubSeq(line, 3, (CHOOSE k \in 1..Len(line) :
                        line[k] = ":" /\ \A j \in 1..(k - 1) : line[j] # ":") - 1)

StartsWith(text, prefix) ==
    Len(text) >= Len(prefix) /\ SubSeq(text, 1, Len(prefix)) = prefix

\* C1: for every valid CIDR input of the selected family with prefix length
\* p, the calculator's result has Total Addresses = 2^(32 - p) for IPv4 and
\* 2^(128 - p) for IPv6, exactly.
C1_TotalAddressesExact ==
    (Dispatched /\ ValidInput) =>
        /\ IsInfo
        /\ FieldOf(subnet_info, LabelTotal)
             = IntValue(PowerOfTwo(max_prefixlen(Selected) - InputNetwork.prefixlen))

\* C2: whenever calculate_ipv4_subnet_info returns a SubnetInfo for address
\* a and prefix length p: Network Address = a AND mask(p), Broadcast Address
\* = Network Address OR NOT mask(p), First usable = Network Address + 1,
\* Last usable = Broadcast Address - 1, Input CIDR = Network Address/p; and
\* the input with the host bits cleared yields the identical SubnetInfo.
C2_Ipv4Derivations ==
    (Dispatched /\ Selected = 4 /\ IsInfo) =>
        LET parts == Split(args.network_address, "/")
            a == v4_ip_int_from_string(parts[1]).val
            p == IF Len(parts) = 1 THEN 32 ELSE v4_make_netmask(parts[2]).val
            mask == Norm(Ones(p) \o Zeros(32 - p))
            notMask == Norm(Zeros(p) \o Ones(32 - p))
            net == BitAnd(a, mask)
            bcast == BitOr(net, notMask)
            netText == v4_string_from_ip_int(net)
        IN  /\ FieldOf(subnet_info, LabelNetwork) = StrValue(netText)
            /\ FieldOf(subnet_info, LabelBroadcast)
                 = StrValue(v4_string_from_ip_int(bcast))
            /\ FieldOf(subnet_info, LabelFirst)
                 = StrValue(v4_string_from_ip_int(Add(net, One)))
            /\ FieldOf(subnet_info, LabelLast)
                 = StrValue(v4_string_from_ip_int(Sub(bcast, One)))
            /\ FieldOf(subnet_info, LabelInputCIDR)
                 = StrValue(netText \o <<"/">> \o DecStr(p))
            /\ subnet_info
                 = calculate_ipv4_subnet_info(netText \o <<"/">> \o DecStr(p))

\* C2 witness: an IPv4 SubnetInfo for an input whose host bits are set
C2_Witness ==
    /\ Dispatched /\ Selected = 4 /\ IsInfo
    /\ v4_ip_int_from_string(Split(args.network_address, "/")[1]).val
         # FieldInt(LabelNetwork)

\* C3: a successful run prints exactly one line per documented field, in the
\* documented order and nothing else; version is not printed.
C3_PrintedFieldSet ==
    (pc = "exited" /\ exit_status = 0 /\ IsInfo) =>
        [i \in 1..Len(stdout) |-> LineLabel(stdout[i])]
          = IF Selected = 4
            THEN <<LabelInputCIDR, LabelNetwork, LabelBroadcast, LabelFirst,
                   LabelLast, LabelTotal>>
            ELSE <<LabelInputCIDR, LabelNetwork, LabelFirst, LabelLast,
                   LabelTotal>>

\* C4: every line print_subnet_info writes is two spaces, the label padded
\* to the widest label, the colon, one space, the value; so the colon is in
\* the same column on every line.
C4_ColonAligned ==
    (pc \in {"return", "exited"} /\ IsInfo) =>
        LET width == max_label_width(subnet_info.items)
        IN  /\ Len(stdout) = Len(subnet_info.items)
            /\ \A i \in 1..Len(stdout) :
                 /\ SubSeq(stdout[i], 1, width + 4)
                      = <<" ", " ">> \o ljust(subnet_info.items[i].label, width)
                        \o <<":", " ">>
                 /\ stdout[i][width + 3] = ":"

\* the inputs the claim C5 names: malformed addresses, prefix lengths out of
\* range, literals of the other family
MalformedLiterals ==
    {<<"9", "9", "9", ".", "1", ".", "1", ".", "1", "/", "2", "4">>,
     <<"g", "g", ":", ":", "/", "6", "4">>,
     <<"n", "o", "t", "-", "a", "n", "-", "i", "p", "/", "2", "4">>,
     <<"1", ".", "2", ".", "3", ".", "4", "/", "-", "1">>}

NamedInvalidV4 ==
    V6Inputs \cup MalformedLiterals
    \cup {t \in V4Inputs : Split(t, "/")[2] = DecStr(IPV4LENGTH + 1)}

NamedInvalidV6 ==
    V4Inputs \cup MalformedLiterals
    \cup {t \in V6Inputs : Split(t, "/")[2] = DecStr(IPV6LENGTH + 1)}

NamedInvalid ==
    IF Selected = 4 THEN args.network_address \in NamedInvalidV4
    ELSE args.network_address \in NamedInvalidV6

\* C5: for every input that is not a valid CIDR of the selected family the
\* calculator returns the invalid-input message ("Error: Invalid IPv4/IPv6
\* address or prefix.") and no SubnetInfo, and the driver prints that one
\* message and no field line.
C5_InvalidInputMessage ==
    (Dispatched /\ (~ValidInput \/ NamedInvalid)) =>
        /\ subnet_info.type = "str"
        /\ StartsWith(subnet_info.text,
                      IF Selected = 4 THEN ErrorPrefixV4 ELSE ErrorPrefixV6)
        /\ pc = "output" => stdout = <<>>
        /\ pc \in {"return", "exited"} => stdout = <<subnet_info.text>>

\* C5 witness: the run on 999.1.1.1/24 under -4 has printed its message
C5_Witness ==
    /\ pc = "exited"
    /\ argv.flag4
    /\ argv.positional
         = << <<"9", "9", "9", ".", "1", ".", "1", ".", "1", "/", "2", "4">> >>
    /\ Len(stdout) = 1
    /\ StartsWith(stdout[1], ErrorPrefixV4)

\* C6: a run in which the calculator returned an error ends with a non-zero
\* exit status, different from that of a run that printed the fields.
C6_ErrorExitStatus ==
    (pc = "exited" /\ subnet_info.type = "str") => exit_status # 0

\* C7: after argument parsing succeeds exactly one calculator is invoked,
\* the IPv4 one if and only if -4 was given, otherwise the IPv6 one; a run
\* with neither flag has the result and the output of the run with -6.
C7_OneCalculatorByFlag ==
    /\ (pc \in {"parse_args", "default_family", "dispatch"}) => calls = <<>>
    /\ Dispatched =>
         calls = <<IF argv.flag4 THEN "calculate_ipv4_subnet_info"
                   ELSE "calculate_ipv6_subnet_info">>
    /\ (pc = "exited" /\ exit_status = 0 /\ ~argv.flag4) =>
         LET result == calculate_ipv6_subnet_info(argv.positional[1])
         IN  /\ subnet_info = result
             /\ stdout = IF result.type = "str" THEN <<result.text>>
                         ELSE print_subnet_info(result)

\* C7 witness: a finished run without -4 and -6 that printed IPv6 fields
C7_Witness ==
    /\ pc = "exited"
    /\ ~argv.flag4 /\ ~argv.flag6
    /\ IsInfo
    /\ calls = <<"calculate_ipv6_subnet_info">>
    /\ Len(stdout) > 1

\* C8: a usage error (both -4 and -6, or no CIDR argument) ends the run with
\* a non-zero status before Dispatch: no calculator is invoked and nothing
\* is printed on standard output.
C8_UsageErrorStopsRun ==
    ((argv.flag4 /\ argv.flag6) \/ argv.positional = <<>>) =>
        /\ pc \in {"parse_args", "exited"}
        /\ calls = <<>>
        /\ subnet_info = NoneValue
        /\ stdout = <<>>
        /\ pc = "exited" => exit_status # 0

\* C8 witness: a run with -4, -6 and a CIDR string has ended
C8_Witness ==
    /\ pc = "exited"
    /\ argv.flag4 /\ argv.flag6
    /\ argv.positional # <<>>
    /\ exit_status = 2

\* C9 as claimed: for every SubnetInfo, network <= first usable <= last
\* usable, and for IPv4 last usable <= broadcast, at every prefix length.
C9_AddressesOrdered ==
    (Dispatched /\ IsInfo) =>
        /\ LessEq(FieldInt(LabelNetwork), FieldInt(LabelFirst))
        /\ LessEq(FieldInt(LabelFirst), FieldInt(LabelLast))
        /\ Selected = 4 => LessEq(FieldInt(LabelLast), FieldInt(LabelBroadcast))

\* C9 as amended: network <= first usable and network <= last usable; for
\* IPv4 both are <= broadcast, first usable <= last usable at prefix lengths
\* 0..30, and at prefix length 31 first usable = broadcast and last usable =
\* network; for IPv6 first usable <= last usable, the highest address of
\* the range.
C9_AddressesOrderedAmended ==
    (Dispatched /\ IsInfo) =>
        /\ LessEq(FieldInt(LabelNetwork), FieldInt(LabelFirst))
        /\ LessEq(FieldInt(LabelNetwork), FieldInt(LabelLast))
        /\ Selected = 4 =>
             /\ LessEq(FieldInt(LabelFirst), FieldInt(LabelBroadcast))
             /\ LessEq(FieldInt(LabelLast), FieldInt(LabelBroadcast))
             /\ FieldPrefix <= 30 =>
                  LessEq(FieldInt(LabelFirst), FieldInt(LabelLast))
             /\ FieldPrefix = 31 =>
                  /\ FieldInt(LabelFirst) = FieldInt(LabelBroadcast)
                  /\ FieldInt(LabelLast) = FieldInt(LabelNetwork)
                  /\ Less(FieldInt(LabelLast), FieldInt(LabelFirst))
        /\ Selected = 6 =>
             /\ LessEq(FieldInt(LabelFirst), FieldInt(LabelLast))
             /\ FieldInt(LabelLast)
                  = BitOr(FieldInt(LabelNetwork),
                          Norm(Zeros(FieldPrefix) \o Ones(IPV6LENGTH - FieldPrefix)))

\* C9 witness: an IPv4 SubnetInfo at prefix length 31
C9_Witness ==
    /\ Dispatched /\ IsInfo
    /\ Selected = 4
    /\ FieldPrefix = 31

\* C10: the "unexpected error" result is unreachable for a valid CIDR of the
\* selected family, the smallest ranges included: the calculator returns a
\* SubnetInfo (10.0.0.1/32 under -4 has Total Addresses 1).
C10_NoUnexpectedError ==
    (Dispatched /\ ValidInput) =>
        /\ ~(subnet_info.type = "str" /\ StartsWith(subnet_info.text, UnexpectedPrefix))
        /\ IsInfo

====
